---- MODULE Spec2Model ----
(***************************************************************************)
(* ZetAuthManager (src/src/auth/types.ts, lines 88-291): the token         *)
(* lifecycle of the ZET API client.  One step of the model is one          *)
(* run-to-completion block of the JavaScript event loop: the synchronous   *)
(* prefix of a call up to its first network await, or the arrival of a     *)
(* network response together with the microtasks it releases.              *)
(***************************************************************************)
EXTENDS Integers, Sequences, FiniteSets, TLC

VARIABLES
    tokens,          \* this.tokens (line 89): the Session, or NoSession for null
    refreshPromise,  \* this.refreshPromise (line 90): 0 for null, else the id of the promise
    now,             \* Date.now()
    refreshes,       \* the promises made by performTokenRefresh, by id
    gat,             \* the getAccessToken() calls, by call slot
    login,           \* the login() call
    logout,          \* the logout() call
    authRes,         \* what isAuthenticated() has just returned
    register         \* the register() call

vars == <<tokens, refreshPromise, now, refreshes, gat, login, logout, authRes, register>>

----------------------------------------------------------------------------
(* Program constants and the bounds of the model *)

tokenExpiryBufferMs == 120000
defaultTokenExpiryMs == 900000

\* number of getAccessToken() calls of a run (each may start one refresh)
NumCallers == 2
\* number of clock advances of a run
MaxTicks == 2

\* The clock starts at StartNow and advances by TickMs: two advances take a
\* Session stored with the default lifetime exactly to its buffer.
StartNow == 5 * tokenExpiryBufferMs
TickMs == (defaultTokenExpiryMs - tokenExpiryBufferMs) \div 2

Callers == 1..NumCallers
NoPromise == 0

----------------------------------------------------------------------------
(* Strings and tokens.  An access token is kept as what split('.') and the  *)
(* base64/JSON decoding of its middle part make of it: the number of parts, *)
(* the kind of the payload segment, and the value of its exp claim.         *)

Undefined == "undefined"
TruthyStr(s) == s \notin {Undefined, ""}

Tok(parts, seg, exp) == [parts |-> parts, seg |-> seg, exp |-> exp]
NoToken == Tok(0, "none", 0)          \* the field is absent
EmptyToken == Tok(1, "none", 0)       \* the string ""
TwoPartToken == Tok(2, "none", 0)     \* "aaa.bbb"
EmptySegToken == Tok(3, "empty", 0)   \* "aaa..ccc"
GarbageToken == Tok(3, "garbage", 0)  \* the payload is not base64 JSON
NoExpToken == Tok(3, "noexp", 0)      \* a JSON payload without exp
ExpToken(s) == Tok(3, "exp", s)       \* a JSON payload with exp = s seconds

TruthyTok(t) == t \notin {NoToken, EmptyToken}

\* exp claims, in seconds: zero, expired at StartNow, at the buffer after one
\* tick, beyond every clock value of a run
ExpZero == ExpToken(0)
ExpPast == ExpToken(StartNow \div 1000)
ExpSoon == ExpToken((StartNow + TickMs + tokenExpiryBufferMs) \div 1000)
ExpFar == ExpToken((StartNow + (MaxTicks + 2) * TickMs) \div 1000)

NoSession == [some |-> FALSE, access |-> NoToken, refresh |-> Undefined, expiresAt |-> 0]

----------------------------------------------------------------------------
(* Expiry derivation and the Session record *)

Max(a, b) == IF a >= b THEN a ELSE b

\* lines 151-155 and 270-273: split, decode the middle part, read exp.
\* ok: three parts, a non-empty middle part, and JSON.parse did not throw;
\* exp: payload.exp, 0 when the claim is absent (both are falsy).
decodePayload(accessToken) ==
    [parts |-> accessToken.parts = 3 /\ accessToken.seg # "empty",
     json |-> accessToken.seg \in {"noexp", "exp"},
     exp |-> IF accessToken.seg = "exp" THEN accessToken.exp ELSE 0]

storeTokensKeepsRefresh(accessToken, refreshToken, expiresAt, t) ==
    LET d == decodePayload(accessToken)
    IN [some |-> TRUE, access |-> accessToken,
        refresh |-> IF tokens.some THEN tokens.refresh ELSE refreshToken,
        expiresAt |-> IF expiresAt # 0 THEN expiresAt
                      ELSE IF d.parts /\ d.json /\ d.exp # 0 THEN d.exp * 1000
                      ELSE t + defaultTokenExpiryMs]

\* storeTokens (lines 267-285); expiresAt = 0 stands for "not given"
\* (!expiresAt is true of undefined and of 0 alike).
storeTokens(accessToken, refreshToken, expiresAt, t) ==
    LET d == decodePayload(accessToken)
        derived == IF expiresAt # 0 THEN expiresAt
                   ELSE IF d.parts /\ d.json
                        THEN (IF d.exp # 0 THEN d.exp * 1000 ELSE t + defaultTokenExpiryMs)
                        ELSE 0
    IN [some |-> TRUE, access |-> accessToken, refresh |-> refreshToken,
        expiresAt |-> IF derived # 0 THEN derived ELSE t + defaultTokenExpiryMs]

\* clearTokens (lines 287-290): both fields at once
clearTokens == [tokens |-> NoSession, refreshPromise |-> NoPromise]

\* the test of lines 96 and 101
isValidNever(tok, t) == FALSE
isValidIgnoringBuffer(tok, t) == tok.some /\ t < tok.expiresAt
isValid(tok, t) == tok.some /\ t < tok.expiresAt - tokenExpiryBufferMs

\* isAuthenticated (lines 95-97)
isAuthenticated == isValid(tokens, now)

----------------------------------------------------------------------------
(* Results of the calls *)

GatNone == [kind |-> "none", token |-> NoToken, err |-> ""]
GatToken(a) == [kind |-> "token", token |-> a, err |-> ""]
GatError(e) == [kind |-> "error", token |-> NoToken, err |-> e]

LoginNone == [kind |-> "none", err |-> "", accessToken |-> NoToken, refreshToken |-> Undefined,
              expiresIn |-> 0, viaTokenRefresh |-> FALSE, viaAccessToken |-> FALSE]
LoginError(e) == [LoginNone EXCEPT !.kind = "error", !.err = e]
\* the AuthTokensLogin object of lines 163-169, 190-196 and 220-226
LoginTokens(tok, t, viaRefresh, viaAccess) ==
    [kind |-> "ok", err |-> "", accessToken |-> tok.access, refreshToken |-> tok.refresh,
     expiresIn |-> Max(0, tok.expiresAt - t),
     viaTokenRefresh |-> viaRefresh, viaAccessToken |-> viaAccess]

\* the error messages of the source
ErrNotAuthenticated == "Not authenticated. Please login first."
ErrTokenExpired == "Token expired. Please login again."
ErrNoRefreshToken == "No refresh token available."
ErrRefreshFailed(statusText) == "Token refresh failed: " \o statusText \o ". Please login again."
ErrRefreshParse == "Failed to parse refresh response"
ErrCredentialsRequired == "Username and password are required for login."
ErrLoginFailed(statusText) == "Login failed: " \o statusText
ErrLoginParse == "Failed to parse login response"
ErrValidation == "ZodError"

----------------------------------------------------------------------------
(* Network responses.  axios.post(...).catch(err => err.response) yields    *)
(* undefined on a transport failure, the response otherwise.                *)

RespNone == [kind |-> "none", statusText |-> "", access |-> NoToken, refresh |-> Undefined]
RespStatus == [kind |-> "status", statusText |-> "Unauthorized", access |-> NoToken, refresh |-> Undefined]
RespBadBody == [kind |-> "badbody", statusText |-> "OK", access |-> NoToken, refresh |-> Undefined]
RespTokens(a, r) == [kind |-> "tokens", statusText |-> "OK", access |-> a, refresh |-> r]

\* the token pairs the service issues
ServerAccess == {NoExpToken, ExpPast, ExpFar}
ServerRefresh == {"", "r1"}
TokenResponses == {RespTokens(a, r) : a \in ServerAccess, r \in ServerRefresh}
FailedResponses == {RespNone, RespStatus, RespBadBody}
Responses == FailedResponses \cup TokenResponses

\* response?.statusText || 'Unknown error' (lines 213, 251)
statusTextOf(resp) == IF resp.kind = "none" \/ resp.statusText = "" THEN "Unknown error" ELSE resp.statusText

----------------------------------------------------------------------------
(* Credentials and the login strategies *)

Cred(u, p, r, a) == [username |-> u, password |-> p, refreshToken |-> r, accessToken |-> a]
NoCred == Cred(Undefined, Undefined, Undefined, NoToken)

Usernames == {Undefined, "not-an-email", "user@zet.hr"}
Passwords == {Undefined, "", "secret"}
RefreshTokens == {Undefined, "", "r0"}
AccessTokens == {NoToken, EmptyToken, TwoPartToken, EmptySegToken, GarbageToken,
                 NoExpToken, ExpZero, ExpPast, ExpSoon, ExpFar}

\* the credential values the strategy selector is tried on: every combination
\* of username, password and refresh token without an access token, and every
\* access token with every refresh token, with and without a password login
CredsAll ==
    {Cred(u, p, r, NoToken) : u \in Usernames, p \in Passwords, r \in RefreshTokens}
    \cup {Cred(Undefined, Undefined, r, a) : r \in RefreshTokens, a \in AccessTokens}
    \cup {Cred("user@zet.hr", "secret", r, a) : r \in RefreshTokens, a \in AccessTokens}
\* the credentials used next to the refresh coordinator
CredsCore == {Cred("user@zet.hr", "secret", Undefined, NoToken),
              Cred(Undefined, Undefined, "r0", ExpSoon)}

\* z.string().email() of line 5
isEmail(u) == u = "user@zet.hr"

\* LoginCredentialsSchema.parse (lines 4-15, 110): the field types, then the refinement
LoginCredentialsSchemaNoRefine(c) ==
    c.username # Undefined => isEmail(c.username)
LoginCredentialsSchema(c) ==
    /\ c.username # Undefined => isEmail(c.username)
    /\ \/ TruthyTok(c.accessToken) /\ TruthyStr(c.refreshToken)
       \/ TruthyStr(c.refreshToken)
       \/ TruthyStr(c.username) /\ TruthyStr(c.password)

\* tryReuseAccessToken (lines 149-176): 0 for null, else the expiresAt it stores
tryReuseAccessTokenNoBuffer(accessToken, t) ==
    LET d == decodePayload(accessToken)
    IN IF ~d.parts \/ ~d.json \/ d.exp = 0 THEN 0
       ELSE IF d.exp * 1000 > t THEN d.exp * 1000
       ELSE 0
tryReuseAccessToken(accessToken, t) ==
    LET d == decodePayload(accessToken)
    IN IF ~d.parts THEN 0
       ELSE IF ~d.json THEN 0
       ELSE IF d.exp = 0 THEN 0
       ELSE IF d.exp * 1000 > t + tokenExpiryBufferMs THEN d.exp * 1000
       ELSE 0

\* the first strategy login() runs for validated credentials (lines 112-122)
firstStrategyRefreshFirst(c, t) ==
    IF TruthyStr(c.refreshToken) THEN "refresh"
    ELSE "password"
firstStrategy(c, t) ==
    IF TruthyTok(c.accessToken) /\ TruthyStr(c.refreshToken)
       /\ tryReuseAccessToken(c.accessToken, t) # 0
    THEN "reuse"
    ELSE IF TruthyStr(c.refreshToken) THEN "refresh"
    ELSE "password"

\* tryRefreshToken after the response (lines 183-186): TRUE when it yields tokens
refreshExchangeYieldsNever(resp) == FALSE
refreshExchangeYields(resp) == resp.kind = "tokens"

\* tryRefreshToken returns null for every failure and catches what is thrown
\* (lines 183, 186, 197-199): login() sees no error of the exchange
refreshExchangeThrowsOnFailure(resp) == resp.kind # "tokens"
refreshExchangeThrows(resp) == FALSE

\* the Session a failed exchange leaves (lines 183, 186, 197-199):
\* tryRefreshToken returns null without calling clearTokens
tryRefreshTokenFailedClears(tok) == NoSession
tryRefreshTokenFailed(tok) == tok

\* performPasswordLogin (line 203)
passwordEligibleAlways(c) == TRUE
passwordEligible(c) == TruthyStr(c.username) /\ TruthyStr(c.password)

\* performPasswordLogin after the response (lines 213-216): the error, "" for none
passwordLoginErrorLenient(resp) ==
    IF resp.kind \in {"none", "status"} THEN ErrLoginFailed(statusTextOf(resp)) ELSE ""
passwordLoginError(resp) ==
    IF resp.kind \in {"none", "status"} THEN ErrLoginFailed(statusTextOf(resp))
    ELSE IF resp.kind = "badbody" THEN ErrLoginParse
    ELSE ""

\* RegisterCredentials (lines 17-22)
RegCred(e, p, c) == [email |-> e, password |-> p, confirmPassword |-> c]
NoRegCred == RegCred(Undefined, Undefined, Undefined)
RegisterCreds == {RegCred(e, p, c) : e \in {"not-an-email", "user@zet.hr"},
                                     p \in {"secret", "other"},
                                     c \in {Undefined, "secret", "other"}}

\* RegisterCredentialsSchema.parse (lines 18-22, 126)
RegisterCredentialsSchema(c) ==
    isEmail(c.email) /\ c.password # Undefined /\ c.confirmPassword # Undefined

\* the comparison of line 127
passwordsMatchAlways(c) == TRUE
passwordsMatch(c) == c.password = c.confirmPassword

ErrPasswordsDoNotMatch == "Passwords do not match."
ErrRegistrationFailed(msg) == "Registration failed: " \o msg

\* the answers of the account endpoint: none (transport failure), a status
\* other than 200 with or without a message in the body, 200
RegResp(kind, statusText, message) == [kind |-> kind, statusText |-> statusText, message |-> message]
RegisterResponses == {RegResp("none", "", ""), RegResp("status", "Conflict", "Email already used"),
                      RegResp("status", "Conflict", ""), RegResp("status", "", ""),
                      RegResp("ok", "OK", "")}

\* register after the response (lines 130-133): the error, "" for none
registrationError(resp) ==
    IF resp.kind = "ok" THEN ""
    ELSE ErrRegistrationFailed(IF resp.kind = "none" THEN "Unknown error"
                               ELSE IF resp.message # "" THEN resp.message
                               ELSE IF resp.statusText # "" THEN resp.statusText
                               ELSE "Unknown error")

RegisterIdle == [pc |-> "idle", cred |-> NoRegCred, net |-> 0, res |-> ""]
LoginIdle == [pc |-> "idle", cred |-> NoCred, at |-> 0, net |-> <<>>, rresp |-> "", presp |-> "",
              res |-> LoginNone]
LogoutIdle == [pc |-> "idle", sent |-> FALSE, resp |-> "", res |-> "none"]
GatIdle == [pc |-> "idle", joined |-> NoPromise, res |-> GatNone]
NoRefresh == [status |-> "none", rt |-> Undefined, sent |-> 0, err |-> "", stored |-> NoSession]

\* A call that has completed hands its result to its caller: the record of a
\* completed call, and of a settled promise, lasts for the one state in which
\* it completed and is gone in the next.
LoginReturned == IF login.pc = "done" THEN LoginIdle ELSE login
LogoutReturned == IF logout.pc = "done" THEN LogoutIdle ELSE logout
GatReturned == [p \in Callers |-> IF gat[p].pc = "done" THEN GatIdle ELSE gat[p]]
RefreshesReturned ==
    [n \in Callers |-> IF refreshes[n].status \in {"fulfilled", "rejected"} THEN NoRefresh
                       ELSE refreshes[n]]

RegisterReturned == IF register.pc = "done" THEN RegisterIdle ELSE register

\* a synchronously rejected promise whose reactions have not run yet: the
\* current run-to-completion block has not ended
MicrotasksPending == \E n \in Callers : refreshes[n].status = "settling"

Init ==
    /\ tokens = NoSession
    /\ refreshPromise = NoPromise
    /\ now = StartNow
    /\ refreshes = [n \in Callers |-> NoRefresh]
    /\ gat = [p \in Callers |-> GatIdle]
    /\ login = LoginIdle
    /\ logout = LogoutIdle
    /\ authRes = "none"
    /\ register = RegisterIdle

\* performPasswordLogin (lines 202-212), entered with credentials c by a
\* login() called at `at` that has made the network calls `net` so far
PasswordStep(c, at, net, rr) ==
    IF passwordEligible(c)
    THEN login' = [pc |-> "password", cred |-> c, at |-> at, net |-> Append(net, "login"),
                   rresp |-> rr, presp |-> "", res |-> LoginNone]
    ELSE login' = [pc |-> "done", cred |-> c, at |-> at, net |-> net, rresp |-> rr,
                   presp |-> "", res |-> LoginError(ErrCredentialsRequired)]

\* login(credentials) up to its first await (lines 109-122)
Login(c) ==
    /\ login.pc \in {"idle", "done"}
    /\ authRes' = "none"
    /\ register' = RegisterReturned
    /\ gat' = GatReturned /\ refreshes' = RefreshesReturned /\ logout' = LogoutReturned
    /\ UNCHANGED <<refreshPromise, now>>
    /\ IF ~LoginCredentialsSchema(c)
       THEN /\ login' = [pc |-> "done", cred |-> c, at |-> now, net |-> <<>>, rresp |-> "",
                         presp |-> "", res |-> LoginError(ErrValidation)]
            /\ UNCHANGED tokens
       ELSE LET s == firstStrategy(c, now)
                start == [pc |-> "idle", cred |-> c, at |-> now, net |-> <<>>, rresp |-> "",
                          presp |-> "", res |-> LoginNone]
            IN CASE s = "reuse" ->
                      LET stored == storeTokens(c.accessToken, c.refreshToken,
                                                tryReuseAccessToken(c.accessToken, now), now)
                      IN /\ tokens' = stored
                         /\ login' = [start EXCEPT !.pc = "done",
                                                   !.res = LoginTokens(stored, now, FALSE, TRUE)]
                 [] s = "refresh" ->
                      /\ login' = [start EXCEPT !.pc = "refresh", !.net = <<"refreshTokens">>]
                      /\ UNCHANGED tokens
                 [] OTHER ->
                      /\ PasswordStep(c, now, <<>>, "")
                      /\ UNCHANGED tokens

\* tryRefreshToken resumes with the response (lines 183-199), then login()
\* goes on to performPasswordLogin when it yielded nothing (lines 119-122)
LoginRefreshResponse(resp) ==
    /\ login.pc = "refresh"
    /\ ~MicrotasksPending
    /\ authRes' = "none"
    /\ register' = RegisterReturned
    /\ gat' = GatReturned /\ refreshes' = RefreshesReturned /\ logout' = LogoutReturned
    /\ UNCHANGED <<refreshPromise, now>>
    /\ IF refreshExchangeYields(resp)
       THEN LET stored == storeTokens(resp.access, resp.refresh, 0, now)
            IN /\ tokens' = stored
               /\ login' = [login EXCEPT !.pc = "done", !.rresp = resp.kind,
                                         !.res = LoginTokens(stored, now, TRUE, FALSE)]
       ELSE IF refreshExchangeThrows(resp)
       THEN /\ login' = [login EXCEPT !.pc = "done", !.rresp = resp.kind,
                                      !.res = LoginError(ErrRefreshFailed(statusTextOf(resp)))]
            /\ tokens' = tryRefreshTokenFailed(tokens)
       ELSE /\ PasswordStep(login.cred, login.at, login.net, resp.kind)
            /\ tokens' = tryRefreshTokenFailed(tokens)

\* performPasswordLogin resumes with the response (lines 213-226)
LoginResponse(resp) ==
    /\ login.pc = "password"
    /\ ~MicrotasksPending
    /\ authRes' = "none"
    /\ register' = RegisterReturned
    /\ gat' = GatReturned /\ refreshes' = RefreshesReturned /\ logout' = LogoutReturned
    /\ UNCHANGED <<refreshPromise, now>>
    /\ IF passwordLoginError(resp) # ""
       THEN /\ login' = [login EXCEPT !.pc = "done", !.presp = resp.kind,
                                         !.res = LoginError(passwordLoginError(resp))]
            /\ UNCHANGED tokens
       ELSE LET stored == storeTokens(resp.access, resp.refresh, 0, now)
            IN /\ tokens' = stored
               /\ login' = [login EXCEPT !.pc = "done", !.presp = resp.kind,
                                         !.res = LoginTokens(stored, now, FALSE, FALSE)]

\* logout() up to its await (lines 136-147); without a refresh token it
\* clears at once
logoutNotifies(tok) == tok.some /\ TruthyStr(tok.refresh)

Logout ==
    /\ logout.pc \in {"idle", "done"}
    /\ authRes' = "none"
    /\ register' = RegisterReturned
    /\ gat' = GatReturned /\ refreshes' = RefreshesReturned /\ login' = LoginReturned
    /\ UNCHANGED now
    /\ IF logoutNotifies(tokens)
       THEN /\ logout' = [pc |-> "sent", sent |-> TRUE, resp |-> "", res |-> "none"]
            /\ UNCHANGED <<tokens, refreshPromise>>
       ELSE /\ logout' = [pc |-> "done", sent |-> FALSE, resp |-> "", res |-> "ok"]
            /\ tokens' = clearTokens.tokens
            /\ refreshPromise' = clearTokens.refreshPromise

\* the logout call settles, whatever way (line 140: .catch(() => {})), then
\* clearTokens (line 146)
logoutOutcomeStrict(resp) == IF resp.kind = "badbody" THEN "ok" ELSE "error"
logoutOutcome(resp) == "ok"

LogoutResponse(resp) ==
    /\ logout.pc = "sent"
    /\ ~MicrotasksPending
    /\ authRes' = "none"
    /\ register' = RegisterReturned
    /\ gat' = GatReturned /\ refreshes' = RefreshesReturned /\ login' = LoginReturned
    /\ UNCHANGED now
    /\ logout' = [logout EXCEPT !.pc = "done", !.resp = resp.kind, !.res = logoutOutcome(resp)]
    /\ IF logoutOutcome(resp) = "ok"
       THEN /\ tokens' = clearTokens.tokens
            /\ refreshPromise' = clearTokens.refreshPromise
       ELSE UNCHANGED <<tokens, refreshPromise>>

\* what isAuthenticated() leaves of the two fields (lines 95-97): it only reads
afterIsAuthenticatedDropsExpired(tok, rp, t) ==
    IF tok.some /\ ~isValid(tok, t) THEN clearTokens ELSE [tokens |-> tok, refreshPromise |-> rp]
afterIsAuthenticated(tok, rp, t) == [tokens |-> tok, refreshPromise |-> rp]

\* isAuthenticated() (lines 95-97)
IsAuthenticated ==
    /\ authRes' = IF isAuthenticated THEN "true" ELSE "false"
    /\ register' = RegisterReturned
    /\ gat' = GatReturned /\ refreshes' = RefreshesReturned
    /\ login' = LoginReturned /\ logout' = LogoutReturned
    /\ tokens' = afterIsAuthenticated(tokens, refreshPromise, now).tokens
    /\ refreshPromise' = afterIsAuthenticated(tokens, refreshPromise, now).refreshPromise
    /\ UNCHANGED now

\* time passes between two blocks
Tick ==
    /\ ~MicrotasksPending
    /\ now + TickMs <= StartNow + MaxTicks * TickMs
    /\ now' = now + TickMs
    /\ authRes' = "none"
    /\ register' = RegisterReturned
    /\ gat' = GatReturned /\ refreshes' = RefreshesReturned
    /\ login' = LoginReturned /\ logout' = LogoutReturned
    /\ UNCHANGED <<tokens, refreshPromise>>

\* register(credentials) up to its await (lines 125-129)
Register(c) ==
    /\ register.pc \in {"idle", "done"}
    /\ authRes' = "none"
    /\ gat' = GatReturned /\ refreshes' = RefreshesReturned
    /\ login' = LoginReturned /\ logout' = LogoutReturned
    /\ UNCHANGED <<tokens, refreshPromise, now>>
    /\ register' =
          IF ~RegisterCredentialsSchema(c)
          THEN [pc |-> "done", cred |-> c, net |-> 0, res |-> ErrValidation]
          ELSE IF ~passwordsMatch(c)
          THEN [pc |-> "done", cred |-> c, net |-> 0, res |-> ErrPasswordsDoNotMatch]
          ELSE [pc |-> "sent", cred |-> c, net |-> 1, res |-> ""]

\* register resumes with the response (lines 130-133)
RegisterResponse(resp) ==
    /\ register.pc = "sent"
    /\ ~MicrotasksPending
    /\ authRes' = "none"
    /\ gat' = GatReturned /\ refreshes' = RefreshesReturned
    /\ login' = LoginReturned /\ logout' = LogoutReturned
    /\ UNCHANGED <<tokens, refreshPromise, now>>
    /\ register' = [register EXCEPT !.pc = "done",
                                    !.res = IF registrationError(resp) = "" THEN "ok"
                                            ELSE registrationError(resp)]

----------------------------------------------------------------------------
(* getAccessToken and the refresh coordinator *)

\* getAccessToken after the await (lines 104-106)
recheckNoValidity(tok, t) ==
    IF ~tok.some THEN GatError(ErrTokenExpired) ELSE GatToken(tok.access)
recheck(tok, t) ==
    IF ~tok.some \/ t >= tok.expiresAt - tokenExpiryBufferMs
    THEN GatError(ErrTokenExpired)
    ELSE GatToken(tok.access)

\* ensureTokenRefresh (line 230): join the promise in flight, if any
joinsRefresh(rp) == rp # NoPromise

\* performTokenRefresh up to its await (lines 241-248): "" when the request
\* is sent, else the error it throws
refreshPrecheck(tok) ==
    IF ~(tok.some /\ TruthyStr(tok.refresh)) THEN ErrNoRefreshToken ELSE ""

\* performTokenRefresh after the response (lines 249-258): the error, "" for none
refreshError(resp) ==
    IF resp.kind \in {"none", "status"} THEN ErrRefreshFailed(statusTextOf(resp))
    ELSE IF resp.kind = "badbody" THEN ErrRefreshParse
    ELSE ""

\* ensureTokenRefresh's finally (line 236): the handle it leaves
ensureTokenRefreshFinallyKeeps(rp) == rp
ensureTokenRefreshFinally(rp) == NoPromise

\* the callers awaiting promise n: each holds the promise itself (lines 230,
\* 234), whatever the handle points to by now
AwaitingThroughHandle(n) ==
    {p \in Callers : gat[p].pc = "awaiting" /\ gat[p].joined = n /\ refreshPromise = n}
Awaiting(n) == {p \in Callers : gat[p].pc = "awaiting" /\ gat[p].joined = n}

\* getAccessToken() up to its await (lines 99-103, 229-234, 240-248), on the
\* first free call slot.  The promise a call makes carries the slot's number.
GetAccessToken(p) ==
    /\ GatReturned[p].pc = "idle"
    /\ \A q \in Callers : q < p => GatReturned[q].pc # "idle"
    /\ authRes' = "none"
    /\ register' = RegisterReturned
    /\ login' = LoginReturned /\ logout' = LogoutReturned
    /\ UNCHANGED <<tokens, now>>
    /\ IF ~tokens.some
       THEN /\ gat' = [GatReturned EXCEPT ![p] = [pc |-> "done", joined |-> NoPromise,
                                                  res |-> GatError(ErrNotAuthenticated)]]
            /\ refreshes' = RefreshesReturned
            /\ UNCHANGED refreshPromise
       ELSE IF isValid(tokens, now)
       THEN /\ gat' = [GatReturned EXCEPT ![p] = [pc |-> "done", joined |-> NoPromise,
                                                  res |-> GatToken(tokens.access)]]
            /\ refreshes' = RefreshesReturned
            /\ UNCHANGED refreshPromise
       ELSE IF joinsRefresh(refreshPromise)
       THEN /\ gat' = [GatReturned EXCEPT ![p] = [pc |-> "awaiting", joined |-> refreshPromise,
                                                  res |-> GatNone]]
            /\ refreshes' = RefreshesReturned
            /\ UNCHANGED refreshPromise
       ELSE /\ gat' = [GatReturned EXCEPT ![p] = [pc |-> "awaiting", joined |-> p,
                                                  res |-> GatNone]]
            /\ refreshPromise' = p
            /\ refreshes' = [RefreshesReturned EXCEPT ![p] =
                   IF refreshPrecheck(tokens) # ""
                   THEN [NoRefresh EXCEPT !.status = "settling", !.rt = tokens.refresh,
                                          !.err = refreshPrecheck(tokens)]
                   ELSE [NoRefresh EXCEPT !.status = "pending", !.rt = tokens.refresh,
                                          !.sent = 1]]

\* The block that made a rejected promise ends: the initiator's finally runs
\* (line 236) and every caller awaiting the promise fails with its error.
Microtasks ==
    /\ MicrotasksPending
    /\ authRes' = "none"
    /\ register' = RegisterReturned
    /\ login' = LoginReturned /\ logout' = LogoutReturned
    /\ refreshPromise' = ensureTokenRefreshFinally(refreshPromise)
    /\ refreshes' = [n \in Callers |->
                        IF refreshes[n].status = "settling"
                        THEN [refreshes[n] EXCEPT !.status = "rejected"]
                        ELSE RefreshesReturned[n]]
    /\ gat' = [p \in Callers |->
                  IF gat[p].pc = "awaiting" /\ refreshes[gat[p].joined].status = "settling"
                  THEN [gat[p] EXCEPT !.pc = "done",
                                      !.res = GatError(refreshes[gat[p].joined].err)]
                  ELSE GatReturned[p]]
    /\ UNCHANGED <<tokens, now>>

\* The response to the refresh request of promise n arrives: performTokenRefresh
\* resumes (lines 249-264), the initiator's finally runs (line 236), and every
\* caller awaiting the promise resumes (line 104) in the same block.
RefreshResponse(n, resp) ==
    /\ refreshes[n].status = "pending"
    /\ ~MicrotasksPending
    /\ authRes' = "none"
    /\ register' = RegisterReturned
    /\ login' = LoginReturned /\ logout' = LogoutReturned
    /\ UNCHANGED now
    /\ IF refreshError(resp) # ""
       THEN /\ tokens' = clearTokens.tokens
            /\ refreshPromise' = ensureTokenRefreshFinally(clearTokens.refreshPromise)
            /\ refreshes' = [RefreshesReturned EXCEPT ![n].status = "rejected",
                                              ![n].err = refreshError(resp)]
            /\ gat' = [p \in Callers |->
                          IF p \in Awaiting(n)
                          THEN [gat[p] EXCEPT !.pc = "done", !.res = GatError(refreshError(resp))]
                          ELSE GatReturned[p]]
       ELSE LET stored == storeTokens(resp.access, resp.refresh, 0, now)
            IN /\ tokens' = stored
               /\ refreshPromise' = ensureTokenRefreshFinally(refreshPromise)
               /\ refreshes' = [RefreshesReturned EXCEPT ![n].status = "fulfilled",
                                                 ![n].stored = stored]
               /\ gat' = [p \in Callers |->
                             IF p \in Awaiting(n)
                             THEN [gat[p] EXCEPT !.pc = "done", !.res = recheck(stored, now)]
                             ELSE GatReturned[p]]

----------------------------------------------------------------------------
LogoutResponses == {RespNone, RespStatus, RespBadBody}

Next ==
    \/ \E p \in Callers : GetAccessToken(p)
    \/ Microtasks
    \/ \E n \in Callers, resp \in Responses : RefreshResponse(n, resp)
    \/ \E c \in CredsCore : Login(c)
    \/ \E resp \in Responses : LoginRefreshResponse(resp)
    \/ \E resp \in Responses : LoginResponse(resp)
    \/ Logout
    \/ \E resp \in LogoutResponses : LogoutResponse(resp)
    \/ IsAuthenticated
    \/ Tick

Spec == Init /\ [][Next]_vars

\* the strategy selector on its own, over every credential value
NextLogin ==
    \/ \E c \in CredsAll : Login(c)
    \/ \E resp \in Responses : LoginRefreshResponse(resp)
    \/ \E resp \in Responses : LoginResponse(resp)
    \/ Logout
    \/ \E resp \in LogoutResponses : LogoutResponse(resp)
    \/ IsAuthenticated
    \/ Tick

SpecLogin == Init /\ [][NextLogin]_vars

\* registration next to login and logout
NextRegister ==
    \/ \E c \in RegisterCreds : Register(c)
    \/ \E resp \in RegisterResponses : RegisterResponse(resp)
    \/ \E c \in CredsCore : Login(c)
    \/ \E resp \in Responses : LoginRefreshResponse(resp)
    \/ \E resp \in Responses : LoginResponse(resp)
    \/ Logout
    \/ \E resp \in LogoutResponses : LogoutResponse(resp)
    \/ IsAuthenticated
    \/ Tick

SpecRegister == Init /\ [][NextRegister]_vars

\* the coordinator and login with every kind of access token the service can
\* return in a body that AuthTokensSchema accepts (any string, lines 26-29)
ResponsesStore ==
    FailedResponses
    \cup {RespTokens(a, "r1") : a \in AccessTokens \ {NoToken}}
    \cup {RespTokens(ExpPast, "")}

NextStore ==
    \/ \E p \in Callers : GetAccessToken(p)
    \/ Microtasks
    \/ \E n \in Callers, resp \in ResponsesStore : RefreshResponse(n, resp)
    \/ \E c \in CredsCore : Login(c)
    \/ \E resp \in ResponsesStore : LoginRefreshResponse(resp)
    \/ \E resp \in ResponsesStore : LoginResponse(resp)
    \/ Logout
    \/ \E resp \in LogoutResponses : LogoutResponse(resp)
    \/ IsAuthenticated
    \/ Tick

SpecStore == Init /\ [][NextStore]_vars

\* getAccessToken next to password logins and logouts, with one answer of
\* each kind: a failure, a stale pair, a fresh pair, a pair without a usable
\* refresh token
ResponsesLive == {RespNone, RespTokens(ExpPast, "r1"), RespTokens(ExpFar, "r1"),
                  RespTokens(ExpPast, "")}

NextLive ==
    \/ \E p \in Callers : GetAccessToken(p)
    \/ Microtasks
    \/ \E n \in Callers, resp \in ResponsesLive : RefreshResponse(n, resp)
    \/ Login(Cred("user@zet.hr", "secret", Undefined, NoToken))
    \/ \E resp \in ResponsesLive : LoginResponse(resp)
    \/ Logout
    \/ LogoutResponse(RespNone)

\* Every network call eventually completes: the response to a refresh request
\* in flight is handled once the running block has ended, and the block that
\* made a rejected promise ends.
Fairness ==
    /\ WF_vars(Microtasks)
    /\ \A n \in Callers : SF_vars(\E resp \in ResponsesLive : RefreshResponse(n, resp))

SpecFair == Init /\ [][NextLive]_vars /\ Fairness

----------------------------------------------------------------------------
(* Properties of the refresh coordinator, checked under Spec.  A completed   *)
(* call or settled promise is visible in exactly the state it completed in, *)
(* so "gat[p].pc = done" reads "getAccessToken call p returns now".         *)

TwoMinutes == 2 * 60 * 1000

\* the calls that awaited promise n and return now
Joined(n) == {p \in Callers : gat[p].pc = "done" /\ gat[p].joined = n}
Settled(n) == refreshes[n].status \in {"fulfilled", "rejected"}

\* C1 as stated: the getAccessToken() calls that needed a refresh and began
\* before it resolved caused exactly one refresh request; when the refresh
\* succeeds each of them returns the new access token, when it fails each of
\* them fails with the refresh's error.
C1_OneRequestSameToken ==
    \A n \in Callers : Settled(n) =>
        /\ refreshes[n].sent = 1
        /\ \A m \in Callers \ {n} : refreshes[m].status # "pending"
        /\ \A p \in Joined(n) :
              gat[p].res = IF refreshes[n].status = "fulfilled"
                           THEN GatToken(refreshes[n].stored.access)
                           ELSE GatError(refreshes[n].err)

\* C1 as amended: the getAccessToken() calls that wait on one refresh promise
\* share one refresh request at most (exactly one unless the Session's refresh
\* token is empty, when none is sent) and one outcome: the refresh's error when
\* it fails, and when it succeeds the new access token if the Session it stored
\* is valid at that moment, the same "Token expired" error if it is not.
C1_SharedOutcome ==
    \A n \in Callers : Settled(n) =>
        /\ Joined(n) # {}
        /\ refreshes[n].sent = IF refreshes[n].rt = "" THEN 0 ELSE 1
        /\ refreshes[n].sent = 0 => refreshes[n].status = "rejected"
        /\ \A p \in Joined(n) :
              gat[p].res = IF refreshes[n].status = "rejected"
                           THEN GatError(refreshes[n].err)
                           ELSE IF now < refreshes[n].stored.expiresAt - TwoMinutes
                           THEN GatToken(refreshes[n].stored.access)
                           ELSE GatError(ErrTokenExpired)

\* two calls waited on one refresh, it succeeded, and both return its token
C1_Witness ==
    \E n \in Callers :
        /\ refreshes[n].status = "fulfilled"
        /\ Cardinality(Joined(n)) >= 2
        /\ \A p \in Joined(n) : gat[p].res = GatToken(refreshes[n].stored.access)

\* C2: at most one coordinated refresh request is in flight at a time
C2_AtMostOneRefreshInFlight ==
    Cardinality({n \in Callers : refreshes[n].status = "pending"}) <= 1

\* C3: logout() completes without raising, and when it completes the Session
\* and the refresh handle are none and isAuthenticated() is false, whatever
\* became of the logout request
C3_LogoutClears ==
    logout.pc = "done" =>
        /\ logout.res = "ok"
        /\ ~tokens.some
        /\ refreshPromise = NoPromise
        /\ ~isAuthenticated

\* logout() completes after its request failed, while a refresh is in flight
C3_Witness ==
    /\ logout.pc = "done"
    /\ logout.resp \in {"none", "status"}
    /\ \E n \in Callers : refreshes[n].status = "pending"
    /\ ~tokens.some /\ refreshPromise = NoPromise

\* C4: a Session that is none becomes a Session only in a step in which a
\* login() succeeds
C4_OnlyLoginAuthenticates ==
    [][(~tokens.some /\ tokens'.some) => (login'.pc = "done" /\ login'.res.kind = "ok")]_vars

----------------------------------------------------------------------------
(* Properties of the login strategies, checked under SpecLogin.             *)
(* "login.pc = done" reads "the login() call returns now".                  *)

\* a field that is given and not the empty string
Present(x) == x \notin {Undefined, ""}
PresentTok(a) == a \notin {NoToken, EmptyToken}

\* the three accepted shapes of section 3
MatchesAShape(c) ==
    \/ PresentTok(c.accessToken) /\ Present(c.refreshToken)
    \/ Present(c.refreshToken)
    \/ Present(c.username) /\ Present(c.password)

\* a username, when given, is an e-mail address
WellTyped(c) == c.username \in {Undefined, "user@zet.hr"}

\* the expiry claim embedded in an access token, in milliseconds; 0 when the
\* token carries none
ClaimMs(a) == IF a.parts = 3 /\ a.seg = "exp" THEN a.exp * 1000 ELSE 0

RefreshFailed(rr) == rr \in {"none", "status", "badbody"}

\* C5: login() with credentials matching none of the three shapes fails with a
\* validation error before any strategy runs, makes no network call and leaves
\* the Session and the refresh handle as they were
C5_InvalidShapeRejected ==
    [][(login'.pc = "done" /\ ~MatchesAShape(login'.cred)) =>
          /\ login.pc \in {"idle", "done"}
          /\ login'.res = LoginError(ErrValidation)
          /\ login'.net = <<>>
          /\ tokens' = tokens
          /\ refreshPromise' = refreshPromise]_vars

\* login() has rejected a value of no shape while a Session exists
C5_Witness ==
    /\ login.pc = "done"
    /\ ~MatchesAShape(login.cred)
    /\ login.res = LoginError(ErrValidation)
    /\ tokens.some

\* C6: login() with an access token whose claim lies more than two minutes
\* ahead, and a refresh token, adopts that pair as the Session without a
\* network call and returns viaAccessToken = true, viaTokenRefresh = false and
\* expiresIn = claim - now
C6_ReuseAdoptsPair ==
    (/\ login.pc = "done"
     /\ WellTyped(login.cred)
     /\ PresentTok(login.cred.accessToken) /\ Present(login.cred.refreshToken)
     /\ ClaimMs(login.cred.accessToken) > login.at + TwoMinutes)
    => /\ login.net = <<>>
       /\ login.at = now
       /\ tokens = [some |-> TRUE, access |-> login.cred.accessToken,
                    refresh |-> login.cred.refreshToken,
                    expiresAt |-> ClaimMs(login.cred.accessToken)]
       /\ login.res = [kind |-> "ok", err |-> "",
                       accessToken |-> login.cred.accessToken,
                       refreshToken |-> login.cred.refreshToken,
                       expiresIn |-> ClaimMs(login.cred.accessToken) - now,
                       viaTokenRefresh |-> FALSE, viaAccessToken |-> TRUE]

\* login() has reused an access token whose claim lies ahead by more than the buffer
C6_Witness ==
    /\ login.pc = "done"
    /\ login.res.viaAccessToken
    /\ tokens.access = login.cred.accessToken
    /\ login.cred.accessToken = ExpSoon
    /\ login.res.expiresIn = TickMs + TwoMinutes

\* C7: the strategies run in the order reuse, refresh exchange, password
\* login.  The refresh endpoint is called only for a refresh token that was
\* supplied and after reuse yielded nothing; a reuse that yields nothing falls
\* through to the exchange; the login endpoint is called only after every
\* earlier eligible strategy yielded nothing; one login() makes at most one
\* refresh call and at most one login call.
C7_StrategyOrder ==
    LET c == login.cred
        reusable == PresentTok(c.accessToken) /\ Present(c.refreshToken)
                    /\ ClaimMs(c.accessToken) > login.at + TwoMinutes
    IN /\ login.net \in {<<>>, <<"refreshTokens">>, <<"login">>, <<"refreshTokens", "login">>}
       /\ (login.net # <<>> /\ Head(login.net) = "refreshTokens")
             => Present(c.refreshToken) /\ ~reusable
       /\ (login.pc # "idle" /\ WellTyped(c) /\ Present(c.refreshToken) /\ ~reusable)
             => (login.net # <<>> /\ Head(login.net) = "refreshTokens")
       /\ (login.net # <<>> /\ login.net[Len(login.net)] = "login")
             => /\ ~reusable
                /\ Present(c.username) /\ Present(c.password)
                /\ IF Present(c.refreshToken)
                   THEN login.net = <<"refreshTokens", "login">> /\ RefreshFailed(login.rresp)
                   ELSE login.net = <<"login">> /\ login.rresp = ""

\* an access token that could not be reused, a failed exchange, then the
\* login endpoint
C7_Witness ==
    /\ login.net = <<"refreshTokens", "login">>
    /\ PresentTok(login.cred.accessToken)
    /\ login.pc = "done"
    /\ login.res.kind = "ok"

\* C8: login() with a refresh token only, whose exchange fails, fails with
\* the "username and password are required" error and never calls the login
\* endpoint
C8_RefreshOnlyFails ==
    (/\ login.pc = "done"
     /\ login.cred.username = Undefined /\ login.cred.password = Undefined
     /\ login.cred.accessToken = NoToken
     /\ Present(login.cred.refreshToken)
     /\ RefreshFailed(login.rresp))
    => /\ login.res = LoginError("Username and password are required for login.")
       /\ login.net = <<"refreshTokens">>

C8_Witness ==
    /\ login.pc = "done"
    /\ login.cred = Cred(Undefined, Undefined, "r0", NoToken)
    /\ login.rresp = "status"
    /\ login.res.kind = "error"
    /\ login.net = <<"refreshTokens">>

\* C9: login() with a refresh token, a username and a password, whose
\* exchange fails, ends as its password attempt ends: with the tokens the
\* login endpoint issued and both via flags false, or with the login error; no
\* error of the exchange shows
C9_SilentFallback ==
    (/\ login.pc = "done"
     /\ login.cred.username = "user@zet.hr" /\ Present(login.cred.password)
     /\ Present(login.cred.refreshToken)
     /\ RefreshFailed(login.rresp))
    => /\ login.net = <<"refreshTokens", "login">>
       /\ login.presp \in {"none", "status", "badbody", "tokens"}
       /\ IF login.presp = "tokens"
          THEN /\ login.res.kind = "ok"
               /\ ~login.res.viaTokenRefresh /\ ~login.res.viaAccessToken
               /\ login.res.accessToken = tokens.access
               /\ login.res.refreshToken = tokens.refresh
               /\ login.res.expiresIn = Max(0, tokens.expiresAt - now)
          ELSE /\ login.res.kind = "error"
               /\ login.res.err \in {"Login failed: Unknown error", "Login failed: Unauthorized",
                                     "Failed to parse login response"}

\* the exchange failed and the password login succeeded
C9_Witness ==
    /\ login.pc = "done"
    /\ Present(login.cred.refreshToken)
    /\ RefreshFailed(login.rresp)
    /\ login.presp = "tokens"
    /\ login.res.kind = "ok" /\ ~login.res.viaTokenRefresh

\* C10: isAuthenticated() returns true exactly when a Session exists and
\* now < expiresAt - 2 minutes
C10_IsAuthenticated ==
    authRes # "none" =>
        (authRes = "true") = (tokens.some /\ now < tokens.expiresAt - TwoMinutes)

\* isAuthenticated() has answered false at the very edge of the buffer
C10_Witness ==
    /\ authRes = "false"
    /\ tokens.some
    /\ now = tokens.expiresAt - TwoMinutes

----------------------------------------------------------------------------
(* Registration, checked under SpecRegister *)

\* C11: register() with confirmPassword different from password fails
\* locally: it makes no network call and leaves the Session as it was
C11_MismatchFailsLocally ==
    [][(register'.pc = "done" /\ register'.cred.password # register'.cred.confirmPassword) =>
          /\ register.pc \in {"idle", "done"}
          /\ register'.res \notin {"", "ok"}
          /\ register'.net = 0
          /\ tokens' = tokens
          /\ refreshPromise' = refreshPromise]_vars

\* register() has refused two different passwords while a Session exists
C11_Witness ==
    /\ register.pc = "done"
    /\ register.cred = RegCred("user@zet.hr", "secret", "other")
    /\ register.res = "Passwords do not match."
    /\ register.net = 0
    /\ tokens.some

----------------------------------------------------------------------------
(* getAccessToken, checked under Spec *)

\* a getAccessToken() call begins on slot p in this step
Begins(p) == gat[p].pc # "awaiting" /\ gat'[p].pc # "idle"

\* the refresh request of promise n is sent in this step
NewRequest(n) == refreshes'[n].status = "pending" /\ refreshes[n].status # "pending"

\* this step sends no request and leaves the Session and the handle alone
NoCallNoChange ==
    /\ \A n \in Callers : ~NewRequest(n)
    /\ Len(login'.net) <= Len(login.net)
    /\ logout'.sent => logout.sent
    /\ register'.net <= register.net
    /\ tokens' = tokens
    /\ refreshPromise' = refreshPromise

\* C12: getAccessToken() causes a refresh request only when a Session exists
\* and is not valid; with a valid Session it returns that Session's access
\* token at once, with no request and no state change; with no Session it
\* fails at once, with no request and no state change
C12_GetAccessTokenFrame ==
    [][/\ \A n \in Callers :
            NewRequest(n) => tokens.some /\ ~(now < tokens.expiresAt - TwoMinutes)
       /\ \A p \in Callers : Begins(p) =>
            /\ ~tokens.some =>
                 /\ gat'[p].pc = "done"
                 /\ gat'[p].res = GatError("Not authenticated. Please login first.")
                 /\ NoCallNoChange
            /\ (tokens.some /\ now < tokens.expiresAt - TwoMinutes) =>
                 /\ gat'[p].pc = "done"
                 /\ gat'[p].res = GatToken(tokens.access)
                 /\ NoCallNoChange]_vars

\* a call found a Session that is no longer valid and its refresh request is out
C12_Witness ==
    \E p \in Callers :
        /\ gat[p].pc = "awaiting" /\ gat[p].joined = p
        /\ refreshes[p].status = "pending" /\ refreshes[p].sent = 1
        /\ tokens.some /\ now >= tokens.expiresAt - TwoMinutes

\* C13: whenever getAccessToken() returns a token, that token is the access
\* token of the Session existing at the moment of return, and that Session is
\* valid at that moment
C13_ReturnedTokenIsCurrent ==
    \A p \in Callers :
        (gat[p].pc = "done" /\ gat[p].res.kind = "token") =>
            /\ tokens.some
            /\ gat[p].res.token = tokens.access
            /\ now < tokens.expiresAt - TwoMinutes

\* a call that waited for a refresh returns the token that refresh stored
C13_Witness ==
    \E p \in Callers :
        /\ gat[p].pc = "done" /\ gat[p].res.kind = "token"
        /\ gat[p].joined # NoPromise
        /\ refreshes[gat[p].joined].status = "fulfilled"
        /\ gat[p].res.token = refreshes[gat[p].joined].stored.access

----------------------------------------------------------------------------
(* The Session after login(), checked under SpecLogin *)

\* login() returns tokens in this state
LoginSucceeds == login.pc = "done" /\ login.res.kind = "ok"

\* C14 as stated: at the instant login() succeeds through any of the three
\* strategies, isAuthenticated() evaluated at that instant returns true
C14_LoginAuthenticates == LoginSucceeds => isAuthenticated

\* C14: at the instant login() succeeds a Session holding the returned pair
\* exists; isAuthenticated() is true at that instant exactly when the returned
\* expiresIn exceeds two minutes, which is always so after a reuse
C14_LoginStoresSession ==
    LoginSucceeds =>
        /\ tokens.some
        /\ tokens.access = login.res.accessToken
        /\ tokens.refresh = login.res.refreshToken
        /\ isAuthenticated <=> login.res.expiresIn > TwoMinutes
        /\ login.res.viaAccessToken => isAuthenticated

\* a refresh exchange has succeeded with an access token that is already stale
C14_Witness ==
    /\ LoginSucceeds
    /\ login.res.viaTokenRefresh
    /\ login.res.expiresIn = 0
    /\ ~isAuthenticated

----------------------------------------------------------------------------
(* Failure and completion of a coordinated refresh, checked under Spec *)

\* C15: whenever a coordinated refresh fails, for whatever reason (transport
\* error, non-200 answer, body of the wrong shape, no usable refresh token),
\* the Session is none when the failure is delivered, every caller waiting on
\* that refresh receives that same failure, and no retry is made
C15_RefreshFailureClears ==
    \A n \in Callers :
        refreshes[n].status = "rejected" =>
            /\ ~tokens.some
            /\ \A p \in Joined(n) : gat[p].res = GatError(refreshes[n].err)
            /\ \A p \in Callers : ~(gat[p].pc = "awaiting" /\ gat[p].joined = n)
            /\ refreshes[n].sent <= 1


\* the coordinated refresh of promise n has not completed yet
InFlight(n) == refreshes[n].status \in {"pending", "settling"}

\* C16: when a coordinated refresh completes, with success or with failure,
\* the refresh handle is none immediately afterwards, so a later
\* getAccessToken() never waits on a finished refresh; the handle is
\* non-none only while a coordinated refresh is in flight
C16_HandleClearedOnCompletion ==
    /\ \A n \in Callers : Settled(n) => refreshPromise = NoPromise
    /\ refreshPromise # NoPromise => InFlight(refreshPromise)
    /\ \A p \in Callers : gat[p].pc = "awaiting" => InFlight(gat[p].joined)

\* a refresh has just succeeded but stored a Session that is not valid, so
\* the next getAccessToken() needs a refresh again and finds no handle
C16_Witness ==
    \E n \in Callers :
        /\ refreshes[n].status = "fulfilled"
        /\ refreshPromise = NoPromise
        /\ tokens.some /\ now >= tokens.expiresAt - TwoMinutes

----------------------------------------------------------------------------
(* The Session record, checked under Spec *)

FifteenMinutes == 15 * 60 * 1000

\* the clock values at which a pair can have been issued so far
IssueTimes == {StartNow + k * TickMs : k \in 0..MaxTicks} \cap 0..now

\* the Session one issuance makes: a pair the endpoints issued at time t, or a
\* pair the caller supplied and login() reused
SessionOf(a, r, t) ==
    [some |-> TRUE, access |-> a, refresh |-> r,
     expiresAt |-> IF ClaimMs(a) # 0 THEN ClaimMs(a) ELSE t + FifteenMinutes]
Issued ==
    {SessionOf(a, r, t) : a \in ServerAccess, r \in ServerRefresh, t \in IssueTimes}
Reused ==
    {SessionOf(c.accessToken, c.refreshToken, 0) :
        c \in {d \in CredsAll : /\ PresentTok(d.accessToken) /\ Present(d.refreshToken)
                                /\ ClaimMs(d.accessToken) # 0}}

\* C17: the Session is either none or a complete record whose access token,
\* refresh token and expiresAt all come from one single issuance; no Session
\* mixes fields of two issuances
C17_SessionFromOneIssuance ==
    tokens = NoSession \/ tokens \in Issued \/ tokens \in Reused

\* a coordinated refresh has replaced a reused Session by the pair it was issued
C17_Witness ==
    \E n \in Callers :
        /\ refreshes[n].status = "fulfilled"
        /\ refreshes[n].rt = "r0"
        /\ tokens = refreshes[n].stored
        /\ tokens.refresh = "r1"

----------------------------------------------------------------------------
(* Expiry derivation, checked under SpecStore *)

\* the access token's payload segment decodes and carries the expiry claim
CarriesClaim(a) == a.parts = 3 /\ a.seg = "exp"

\* the expiresAt the claim prescribes for a pair stored at time t with no override
DerivedExpiry(a, t) == IF CarriesClaim(a) THEN a.exp * 1000 ELSE t + FifteenMinutes

\* C18: a pair stored without an expiry override (refresh exchange, password
\* login, coordinated refresh) gets expiresAt = the access token's expiry
\* claim in seconds times 1000 when the payload decodes and carries the claim,
\* and now + 15 minutes when decoding fails, the token is malformed or the
\* claim is absent; a pair stored with an override gets the override
C18_ExpiryDerivation ==
    /\ LoginSucceeds =>
          tokens.expiresAt = IF login.res.viaAccessToken
                             THEN ClaimMs(login.res.accessToken)
                             ELSE DerivedExpiry(login.res.accessToken, now)
    /\ \A n \in Callers :
          refreshes[n].status = "fulfilled" =>
              refreshes[n].stored.expiresAt = DerivedExpiry(refreshes[n].stored.access, now)

----------------------------------------------------------------------------
(* Failure of the password strategy, checked under SpecLogin *)

\* performPasswordLogin resumes in this step with an answer that is no token pair
PasswordLoginFails ==
    /\ login.pc = "password" /\ login'.pc = "done"
    /\ login'.presp \in {"none", "status", "badbody"}

\* C19: when the password strategy runs and the login endpoint answers
\* non-200, fails in transport, or returns a body that is no token pair,
\* login() fails outright with a login-failed error, makes no further network
\* call and stores no Session
C19_PasswordFailureIsFinal ==
    [][PasswordLoginFails =>
          /\ login'.res.kind = "error"
          /\ login'.res.err \in {ErrLoginFailed("Unauthorized"), ErrLoginFailed("Unknown error"),
                                 ErrLoginParse}
          /\ login'.net = login.net
          /\ tokens' = tokens
          /\ refreshPromise' = refreshPromise]_vars

\* the password login that followed a failed refresh exchange has been
\* answered by a body of the wrong shape; the earlier Session is still there
C19_Witness ==
    /\ login.pc = "done"
    /\ login.rresp = "status"
    /\ login.presp = "badbody"
    /\ login.res = LoginError(ErrLoginParse)
    /\ login.net = <<"refreshTokens", "login">>
    /\ tokens.some

----------------------------------------------------------------------------
(* isAuthenticated as a read, checked under Spec *)

\* C20: isAuthenticated() is a pure read: it makes no network call and leaves
\* the Session and the refresh handle unchanged, also when the Session is
\* expired
C20_IsAuthenticatedPure == [][authRes' # "none" => NoCallNoChange]_vars

\* isAuthenticated() has answered false for an expired Session while a
\* refresh is in flight, and both are still there
C20_Witness ==
    /\ authRes = "false"
    /\ tokens.some /\ now >= tokens.expiresAt - TwoMinutes
    /\ refreshPromise # NoPromise
    /\ refreshes[refreshPromise].status = "pending"

----------------------------------------------------------------------------
(* The frame of a failed login(), checked under SpecLogin *)

\* login() runs in this step: it begins or resumes with a response
LoginStep == login' # LoginReturned

\* C21: a login() call that fails, for whatever reason (validation error,
\* failed refresh exchange with no password credentials, failed password
\* login), leaves the Session and the refresh handle as they were: no step
\* of login() other than the one in which it succeeds changes either
C21_FailedLoginLeavesSession ==
    [][(LoginStep /\ ~(login'.pc = "done" /\ login'.res.kind = "ok")) =>
          /\ tokens' = tokens
          /\ refreshPromise' = refreshPromise]_vars

\* a refresh-only login has failed after its exchange was refused, and the
\* Session established before it is still there
C21_Witness ==
    /\ login.pc = "done"
    /\ login.res = LoginError(ErrCredentialsRequired)
    /\ login.rresp = "status"
    /\ login.net = <<"refreshTokens">>
    /\ tokens.some

----------------------------------------------------------------------------
(* A refresh that outlives its Session, checked under Spec *)

\* the coordinated refresh of promise n completes in this step
Completes(n) == refreshes[n].status = "pending" /\ Settled(n)'

\* C22: when login() has succeeded while a coordinated refresh started from
\* an earlier Session was in flight, the completion of that refresh neither
\* overwrites nor clears the Session login() installed: a coordinated refresh
\* replaces or destroys only the Session it was started from.  A Session
\* whose refresh token differs from the one the refresh sent is not the
\* Session the refresh was started from.
C22_RefreshSparesLaterSession ==
    [][\A n \in Callers :
          (Completes(n) /\ tokens.some /\ tokens.refresh # refreshes[n].rt) =>
              tokens' = tokens]_vars

----------------------------------------------------------------------------
(* Termination of getAccessToken, checked under SpecFair *)

\* C23: if every network call eventually completes, every getAccessToken()
\* call eventually returns a token or fails: no caller waiting on a
\* coordinated refresh waits forever, also when logout() discards the
\* refresh handle while that refresh is in flight
C23_GetAccessTokenReturns ==
    \A p \in Callers : (gat[p].pc = "awaiting") ~> (gat[p].pc = "done")

\* a caller returns from a refresh whose handle was discarded while it was
\* in flight: a second refresh, started since, is still out
C23_Witness ==
    \E p, q \in Callers :
        /\ p # q
        /\ gat[p].pc = "done" /\ gat[p].joined = p
        /\ gat[q].pc = "awaiting" /\ gat[q].joined = q
        /\ refreshes[q].status = "pending"

====
